---- MODULE Spec2Model ----
(***************************************************************************)
(* Model of the geminirag backend: the /api/query handler (intent          *)
(* inference, retrieval fallback chain, generation), the ChromaDB wrapper, *)
(* the internet search helper and /api/search, /api/generate_plan, the     *)
(* /api/upload handler, the file ingestion function process_uploaded_file  *)
(* and the loader load_data.py.                                            *)
(*                                                                         *)
(* Text that the code inspects character by character (the query, the      *)
(* keyword sets) is a sequence of one-character strings.  Text that the    *)
(* code only passes around (chunk texts, snippets) is an opaque string.    *)
(***************************************************************************)
EXTENDS Integers, Sequences, FiniteSets, TLC

(* ------------------------------------------------------------------ *)
(* Bounds of the model                                                 *)
(* ------------------------------------------------------------------ *)
\* number of chunks in the largest collection found on disk at start-up
MaxStored == 8
\* number of calls of process_uploaded_file in one run
MaxIngests == 1
\* number of runs of load_data.main
MaxLoads == 1
\* number of concurrent /api/upload workers
NumWorkers == 2
\* largest number of chunks the splitter makes of one text file
MaxSplit == 2

(* ------------------------------------------------------------------ *)
(* Characters and strings as the code sees them                        *)
(* ------------------------------------------------------------------ *)
UpperAlpha ==
  <<"A","B","C","D","E","F","G","H","I","J","K","L","M",
    "N","O","P","Q","R","S","T","U","V","W","X","Y","Z">>

LowerAlpha ==
  <<"a","b","c","d","e","f","g","h","i","j","k","l","m",
    "n","o","p","q","r","s","t","u","v","w","x","y","z">>

\* str.lower() on one character
LowerChar(c) ==
  IF \E i \in 1..26 : UpperAlpha[i] = c
  THEN LowerAlpha[CHOOSE i \in 1..26 : UpperAlpha[i] = c]
  ELSE c

\* str.lower()
Lower(s) == [i \in 1..Len(s) |-> LowerChar(s[i])]

IsSpace(c) == c = " "

\* str.strip(): drop leading and trailing whitespace
Strip(s) ==
  LET idx == {i \in 1..Len(s) : ~IsSpace(s[i])}
  IN  IF idx = {} THEN <<>>
      ELSE LET lo == CHOOSE i \in idx : \A j \in idx : i <= j
               hi == CHOOSE i \in idx : \A j \in idx : j <= i
           IN  SubSeq(s, lo, hi)

\* the `in` operator on strings: sub occurs in s as a contiguous substring
Contains(sub, s) ==
  \E i \in 1..(Len(s) - Len(sub) + 1) : SubSeq(s, i, i + Len(sub) - 1) = sub

SP == <<" ">>

(* ------------------------------------------------------------------ *)
(* Keyword sets of the intent inference                                *)
(* ------------------------------------------------------------------ *)
COUNT_KEYWORDS ==
  {<<"h","o","w"," ","m","a","n","y">>,
   <<"c","o","u","n","t">>,
   <<"n","u","m","b","e","r"," ","o","f">>,
   <<"t","o","t","a","l">>,
   <<"a","m","o","u","n","t">>}

DOCUMENT_KEYWORDS ==
  {<<"d","o","c","u","m","e","n","t">>,
   <<"d","o","c","u","m","e","n","t","s">>,
   <<"f","i","l","e">>,
   <<"f","i","l","e","s">>,
   <<"i","t","e","m">>,
   <<"i","t","e","m","s">>,
   <<"e","n","t","r","y">>,
   <<"e","n","t","r","i","e","s">>,
   <<"i","n","d","e","x","e","d">>,
   <<"s","t","o","r","e","d">>,
   <<"s","a","v","e","d">>,
   <<"e","n","c","o","d","e","d">>,
   <<"c","o","l","l","e","c","t","i","o","n">>}

\* a variant for which one keyword class is enough
IsCountQueryEither(queryLower) ==
  \/ \E kw \in COUNT_KEYWORDS : Contains(kw, queryLower)
  \/ \E kw \in DOCUMENT_KEYWORDS : Contains(kw, queryLower)

\* is_count_query: any(keyword in query_lower ...) must hold for
\* COUNT_KEYWORDS and for DOCUMENT_KEYWORDS
IsCountQuery(queryLower) ==
  /\ \E kw \in COUNT_KEYWORDS : Contains(kw, queryLower)
  /\ \E kw \in DOCUMENT_KEYWORDS : Contains(kw, queryLower)

(* ------------------------------------------------------------------ *)
(* JSON values of the request body                                     *)
(* ------------------------------------------------------------------ *)
\* a JSON value: null (or missing key), a list of strings, or a string
\* (a string is carried as one token, the empty string as no token)
JNull       == [kind |-> "null", items |-> <<>>]
JList(xs)   == [kind |-> "list", items |-> xs]
JStr(xs)    == [kind |-> "str",  items |-> xs]

\* Python truthiness of a JSON value: None, [] and "" are falsy
Truthy(v) == v.kind # "null" /\ Len(v.items) > 0

\* isinstance(v, list)
IsList(v) == v.kind = "list"

Min(a, b) == IF a <= b THEN a ELSE b

\* a variant that returns the whole list
SliceToAll(xs, n) == xs

\* the slice xs[:n], for negative n too
SliceTo(xs, n) ==
  IF n >= 0 THEN SubSeq(xs, 1, Min(n, Len(xs)))
  ELSE SubSeq(xs, 1, IF Len(xs) + n >= 0 THEN Len(xs) + n ELSE 0)

(* ------------------------------------------------------------------ *)
(* ChromaDBWrapper                                                     *)
(* ------------------------------------------------------------------ *)
\* a stored chunk: id, text and the metadata the ingestion attached
Chunk(id, text, source, type) ==
  [id |-> id, text |-> text, source |-> source, type |-> type]

\* collection.query(query_texts=[query], n_results=n): the n nearest chunk
\* texts; the ranking is the index's own, here the storage order
CollectionQuery(coll, n) ==
  [i \in 1..Min(n, Len(coll)) |-> coll[i].text]

\* a variant without the except branch: the exception reaches the caller
RetrievePropagates(coll, n_results, storeOk) ==
  IF storeOk
  THEN [raised |-> FALSE, docs |-> CollectionQuery(coll, n_results)]
  ELSE [raised |-> TRUE, docs |-> <<>>]

\* ChromaDBWrapper.retrieve: the query result, or [] when the call raises;
\* the except branch catches every exception, so none reaches the caller
Retrieve(coll, n_results, storeOk) ==
  IF storeOk
  THEN [raised |-> FALSE, docs |-> CollectionQuery(coll, n_results)]
  ELSE [raised |-> FALSE, docs |-> <<>>]

\* a variant that reports a failed count as an empty collection
CountDocumentsZero(coll, storeOk) ==
  IF storeOk THEN Len(coll) ELSE 0

\* ChromaDBWrapper.count_documents: the count, or -1 when the call raises
CountDocuments(coll, storeOk) ==
  IF storeOk THEN Len(coll) ELSE -1

\* ChromaDBWrapper.add_texts: one chunk per text with a fresh uuid4 id;
\* nothing is added for an empty list or when collection.add raises, and
\* the exception is logged, not raised
AddTexts(coll, firstId, texts, source, type, addOk) ==
  IF texts = <<>> \/ ~addOk THEN coll
  ELSE coll \o [i \in 1..Len(texts) |->
                  Chunk(firstId + i - 1, texts[i], source, type)]

\* ChromaDBWrapper.add_documents: one chunk per document, with the text
\* and the metadata the document carries; failures are logged, not raised
AddDocuments(coll, firstId, docs, addOk) ==
  IF docs = <<>> \/ ~addOk THEN coll
  ELSE coll \o [i \in 1..Len(docs) |->
                  Chunk(firstId + i - 1, docs[i].page_content,
                        docs[i].source, docs[i].type)]

(* ------------------------------------------------------------------ *)
(* perform_internet_search                                            *)
(* ------------------------------------------------------------------ *)
\* a related topic of the provider's answer: its own Text, or nested Topics
Topic(text, sub) == [text |-> text, sub |-> sub]

\* the provider's answer: fail # "none" is an exception raised by the
\* request, the status check or the JSON decoding
SearchResponse(fail, abstract, topics, definition) ==
  [fail |-> fail, abstract |-> abstract, topics |-> topics,
   definition |-> definition]

RECURSIVE AddSubTopics(_, _, _, _)
\* for sub_topic in topic["Topics"]: append while fewer than num_results
AddSubTopics(results, subs, j, num_results) ==
  IF j > Len(subs) THEN results
  ELSE AddSubTopics(
         IF subs[j] # "" /\ Len(results) < num_results
         THEN Append(results, subs[j]) ELSE results,
         subs, j + 1, num_results)

RECURSIVE AddTopics(_, _, _, _)
\* for topic in data["RelatedTopics"]: nested topics first, else the
\* topic's own text; stop once num_results snippets are collected
AddTopics(results, topics, i, num_results) ==
  IF i > Len(topics) THEN results
  ELSE LET t == topics[i]
           r == IF t.sub # <<>>
                THEN AddSubTopics(results, t.sub, 1, num_results)
                ELSE IF t.text # "" /\ Len(results) < num_results
                     THEN Append(results, t.text) ELSE results
       IN  IF Len(r) >= num_results THEN r
           ELSE AddTopics(r, topics, i + 1, num_results)

PerformInternetSearch(resp, num_results) ==
  IF resp.fail # "none" THEN <<>>
  ELSE LET r0 == IF resp.abstract # "" THEN <<resp.abstract>> ELSE <<>>
           r1 == IF resp.topics # <<>>
                 THEN AddTopics(r0, resp.topics, 1, num_results) ELSE r0
           r2 == IF r1 = <<>> /\ resp.definition # ""
                 THEN <<resp.definition>> ELSE r1
       IN  SliceTo(r2, num_results)

\* num_results when handle_query calls the search (the default argument)
DefaultNumResults == 3

\* n_results handle_query passes to retrieve
QueryNResults == 7

(* ------------------------------------------------------------------ *)
(* gemini: format_rag_prompt, parse_gemini_response, generate_response *)
(* ------------------------------------------------------------------ *)
RECURSIVE JoinFrom(_, _)
\* "\n".join(documents) as the sequence of its non-empty pieces: each
\* non-empty document, and a "\n" between consecutive documents
JoinFrom(documents, i) ==
  IF i > Len(documents) THEN <<>>
  ELSE (IF i > 1 THEN <<"\n">> ELSE <<>>)
       \o (IF documents[i] # "" THEN <<documents[i]>> ELSE <<>>)
       \o JoinFrom(documents, i + 1)


\* the instruction of the prompt: the caller's task_instruction, or the
\* default "Answer the following question: {query}" with the context
\* guidance appended when there is a source and a context
TaskInstruction(query, context, source_type, task_instruction) ==
  IF ~Truthy(task_instruction)
  THEN [kind |-> "default", query |-> query, text |-> <<>>,
        useContext |-> (source_type # "none" /\ context # <<>>)]
  ELSE [kind |-> "custom", query |-> <<>>, text |-> task_instruction.items,
        useContext |-> FALSE]

\* source_description of the prompt
SourceDescription(source_type, context) ==
  IF source_type = "documents" /\ context # <<>>
  THEN "using the following documents retrieved from internal storage"
  ELSE IF source_type = "internet" /\ context # <<>>
       THEN "using the following information found on the internet"
       ELSE ""

\* format_rag_prompt: the prompt as the fields its template renders; the
\* source description and the context block appear only with a context
FormatRagPrompt(query, documents, source_type, task_instruction) ==
  LET context == JoinFrom(documents, 1)
      task    == TaskInstruction(query, context, source_type, task_instruction)
  IN  IF context # <<>>
      THEN [instruction |-> task,
            source_description |-> SourceDescription(source_type, context),
            hasContext |-> TRUE, context |-> context]
      ELSE [instruction |-> task, source_description |-> "",
            hasContext |-> FALSE, context |-> <<>>]

\* what model.generate_content does: a response with a text field, a
\* multi-part response, a response with neither, a response whose fields
\* cannot be read, or an exception with a reason
GenText(t)      == [kind |-> "text",   parts |-> <<t>>]
GenParts(ps)    == [kind |-> "parts",  parts |-> ps]
GenEmpty        == [kind |-> "empty",  parts |-> <<>>]
GenUnreadable   == [kind |-> "broken", parts |-> <<>>]
GenRaise(why)   == [kind |-> "raise",  parts |-> <<why>>]

SorryText == "Sorry, I couldn't generate a response based on the provided information."

\* parse_gemini_response: response.text, else the parts concatenated, else
\* the apology; any exception while reading gives "Error parsing response."
ParseGeminiResponse(response) ==
  CASE response.kind = "text"   -> response.parts
    [] response.kind = "parts"  -> response.parts
    [] response.kind = "empty"  -> <<SorryText>>
    [] OTHER                    -> <<"Error parsing response.">>

\* source_suffix of generate_response
SourceSuffix(source_type, documents) ==
  IF source_type = "documents" /\ documents # <<>>
  THEN "\n\n(Source: Internal Documents)"
  ELSE IF source_type = "internet" /\ documents # <<>>
       THEN "\n\n(Source: Internet Search)"
       ELSE IF source_type = "none"
            THEN "\n\n(Source: General Knowledge - No specific documents found)"
            ELSE ""

\* GeminiAPI.__init__ sets self.model or raises, so a constructed client
\* always has a model
ModelInitialized == TRUE

\* a variant whose error string leaves out what went wrong
GenerateResponseNoReason(query, documents, source_type, task_instruction, gen) ==
  LET prompt == FormatRagPrompt(query, documents, source_type, task_instruction)
  IN  IF gen.kind = "raise"
      THEN [body |-> <<"Error generating response.">>, suffix |-> "",
            failed |-> TRUE, prompt |-> prompt]
      ELSE [body |-> ParseGeminiResponse(gen),
            suffix |-> SourceSuffix(source_type, documents),
            failed |-> FALSE, prompt |-> prompt]

\* GeminiAPI.generate_response: the answer string as its pieces; failed
\* tells an error string from a generated answer (it is not in the string)
GenerateResponse(query, documents, source_type, task_instruction, gen) ==
  IF ~ModelInitialized
  THEN [body |-> <<"Error: Gemini model not available.">>, suffix |-> "",
        failed |-> TRUE,
        prompt |-> FormatRagPrompt(query, documents, source_type, task_instruction)]
  ELSE LET prompt == FormatRagPrompt(query, documents, source_type, task_instruction)
       IN  IF gen.kind = "raise"
           THEN [body |-> <<"Error generating response: ">> \o gen.parts,
                 suffix |-> "", failed |-> TRUE, prompt |-> prompt]
           ELSE [body |-> ParseGeminiResponse(gen),
                 suffix |-> SourceSuffix(source_type, documents),
                 failed |-> FALSE, prompt |-> prompt]

(* ------------------------------------------------------------------ *)
(* handle_query                                                        *)
(* ------------------------------------------------------------------ *)
\* a call handle_query makes to a collaborator, in the order it makes them
Call(op, documents, source_type) ==
  [op |-> op, documents |-> documents, source_type |-> source_type]

\* the JSON response: status code, the key of the body and its text
Response(status, key, body, suffix) ==
  [status |-> status, key |-> key, body |-> body, suffix |-> suffix]

\* a variant that looks at the external context only
IntentInferenceIgnoresTask(external_context, task_instruction) ==
  ~Truthy(external_context)

\* the test that guards the intent inference block
IntentInferenceRuns(external_context, task_instruction) ==
  ~Truthy(external_context) /\ ~Truthy(task_instruction)

\* a variant that takes the caller's context only when it has several items
UsesExternalContextSeveral(external_context) ==
  IsList(external_context) /\ Len(external_context.items) > 1

\* a variant that takes any list, the empty one too
UsesExternalContextAnyList(external_context) == IsList(external_context)

\* the test that selects the caller's context as the documents
UsesExternalContext(external_context) ==
  Truthy(external_context) /\ IsList(external_context)

\* the answer rendered for a count that is not the failure sentinel
CountAnswer(count) ==
  IF count = 0 THEN <<"There are currently no documents indexed.">>
  ELSE IF count = 1 THEN <<"There is currently 1 document indexed.">>
       ELSE <<"There are currently ", ToString(count), " documents indexed.">>

\* a variant that goes on to the retrieval when the count fails
CountBranchFallsThrough(coll, storeOk) ==
  LET count == CountDocuments(coll, storeOk)
  IN  [calls |-> IF count # -1 THEN <<Call("count", <<>>, "")>>
                 ELSE <<Call("count", <<>>, ""),
                        Call("retrieve", Retrieve(coll, 7, storeOk).docs, "")>>,
       resp  |-> IF count # -1
                 THEN Response(200, "answer", CountAnswer(count), "")
                 ELSE Response(500, "error",
                        <<"Sorry, I encountered an issue trying to count the documents.">>, "")]

\* the inferred document count branch of handle_query
CountBranch(coll, storeOk) ==
  LET count == CountDocuments(coll, storeOk)
  IN  [calls |-> <<Call("count", <<>>, "")>>,
       resp  |-> IF count # -1
                 THEN Response(200, "answer", CountAnswer(count), "")
                 ELSE Response(500, "error",
                        <<"Sorry, I encountered an issue trying to count the documents.">>, "")]

\* a variant whose test never succeeds
HasDocumentsNever(docs) == FALSE

\* truthiness of a list of documents: `if chroma_documents:`
HasDocuments(docs) == docs # <<>>

\* the retrieval fallback of handle_query: the documents, the source type
\* and the collaborator calls made to find them; raised when a call let
\* an exception through
SelectSource(external_context, coll, storeOk, searchResp) ==
  IF UsesExternalContext(external_context)
  THEN [documents |-> external_context.items, source_type |-> "external",
        calls |-> <<>>, raised |-> FALSE]
  ELSE LET retrieved        == Retrieve(coll, QueryNResults, storeOk)
           chroma_documents == retrieved.docs
       IN  IF retrieved.raised
           THEN [documents |-> <<>>, source_type |-> "none",
                 calls |-> <<Call("retrieve", <<>>, "")>>, raised |-> TRUE]
           ELSE IF HasDocuments(chroma_documents)
           THEN [documents |-> chroma_documents, source_type |-> "documents",
                 calls |-> <<Call("retrieve", chroma_documents, "")>>,
                 raised |-> FALSE]
           ELSE LET internet_results ==
                      PerformInternetSearch(searchResp, DefaultNumResults)
                IN  [documents |-> internet_results,
                     source_type |-> IF HasDocuments(internet_results)
                                     THEN "internet" ELSE "none",
                     calls |-> <<Call("retrieve", chroma_documents, ""),
                                 Call("search", internet_results, "")>>,
                     raised |-> FALSE]

\* the RAG workflow of handle_query: source selection, then generation;
\* an exception inside the try block gives the 500 of the except branch
RagBranch(query, task_instruction, external_context, coll, storeOk, searchResp, gen) ==
  LET sel    == SelectSource(external_context, coll, storeOk, searchResp)
      answer == GenerateResponse(query, sel.documents, sel.source_type,
                                 task_instruction, gen)
  IN  IF sel.raised
      THEN [calls |-> sel.calls,
            resp  |-> Response(500, "error",
                        <<"An internal error occurred while processing your query.">>, "")]
      ELSE [calls |-> Append(sel.calls,
                        Call("generate", sel.documents, sel.source_type)),
            resp  |-> Response(200, "answer", answer.body, answer.suffix)]

\* handle_query on one request body
HandleQueryResult(req, coll, storeOk, searchResp, gen) ==
  IF ~req.hasQuery
  THEN [calls |-> <<>>,
        resp  |-> Response(400, "error", <<"Missing query in request body.">>, "")]
  ELSE LET query       == Strip(req.query)
           query_lower == Lower(query)
       IN  IF IntentInferenceRuns(req.external_context, req.task_instruction)
              /\ IsCountQuery(query_lower)
           THEN CountBranch(coll, storeOk)
           ELSE RagBranch(query, req.task_instruction, req.external_context,
                          coll, storeOk, searchResp, gen)

(* ------------------------------------------------------------------ *)
(* handle_search                                                       *)
(* ------------------------------------------------------------------ *)
\* a request body of /api/search; num_results is -1 when the body has
\* no such field
SearchRequest(hasQuery, num_results) ==
  [hasQuery |-> hasQuery, num_results |-> num_results]

\* data.get('num_results', 3)
RequestedNumResults(req) ==
  IF req.num_results = -1 THEN 3 ELSE req.num_results

\* handle_search on one request body: perform_internet_search returns a
\* list on every path, so the except branch of the handler is not taken
HandleSearchResult(req, searchResp) ==
  IF ~req.hasQuery
  THEN Response(400, "error", <<"Missing query in request body.">>, "")
  ELSE Response(200, "results",
         PerformInternetSearch(searchResp, RequestedNumResults(req)), "")

(* ------------------------------------------------------------------ *)
(* generate_plan                                                       *)
(* ------------------------------------------------------------------ *)
\* texts the generator may answer a planning prompt with, and reasons its
\* exceptions may carry
PlanNumbered == "1. Search the web. 2. Summarize."
PlanProse    == "Search the web."
PartStep     == "Step "
PartOne      == "1"
ReasonQuota  == "429 quota exceeded"
ReasonReset  == "connection reset"

\* the fixed text that replaces an answer that does not look like a plan
PlanApology == "Sorry, I couldn't generate a detailed plan for that request."

\* the characters of a text, for the texts generate_plan can meet: the
\* generator's answers and reasons and the fixed texts of generate_response
CharsOf(s) ==
  CASE s = "" -> <<>>
    [] s = PlanNumbered ->
         <<"1", ".", " ", "S", "e", "a", "r", "c", "h", " ", "t", "h",
           "e", " ", "w", "e", "b", ".", " ", "2", ".", " ", "S", "u",
           "m", "m", "a", "r", "i", "z", "e", ".">>
    [] s = PlanProse ->
         <<"S", "e", "a", "r", "c", "h", " ", "t", "h", "e", " ", "w",
           "e", "b", ".">>
    [] s = PartStep ->
         <<"S", "t", "e", "p", " ">>
    [] s = PartOne ->
         <<"1">>
    [] s = ReasonQuota ->
         <<"4", "2", "9", " ", "q", "u", "o", "t", "a", " ", "e", "x",
           "c", "e", "e", "d", "e", "d">>
    [] s = ReasonReset ->
         <<"c", "o", "n", "n", "e", "c", "t", "i", "o", "n", " ", "r",
           "e", "s", "e", "t">>
    [] s = SorryText ->
         <<"S", "o", "r", "r", "y", ",", " ", "I", " ", "c", "o", "u",
           "l", "d", "n", "'", "t", " ", "g", "e", "n", "e", "r", "a",
           "t", "e", " ", "a", " ", "r", "e", "s", "p", "o", "n", "s",
           "e", " ", "b", "a", "s", "e", "d", " ", "o", "n", " ", "t",
           "h", "e", " ", "p", "r", "o", "v", "i", "d", "e", "d", " ",
           "i", "n", "f", "o", "r", "m", "a", "t", "i", "o", "n", ".">>
    [] s = "Error parsing response." ->
         <<"E", "r", "r", "o", "r", " ", "p", "a", "r", "s", "i", "n",
           "g", " ", "r", "e", "s", "p", "o", "n", "s", "e", ".">>
    [] s = "Error generating response: " ->
         <<"E", "r", "r", "o", "r", " ", "g", "e", "n", "e", "r", "a",
           "t", "i", "n", "g", " ", "r", "e", "s", "p", "o", "n", "s",
           "e", ":", " ">>
    [] s = "Error: Gemini model not available." ->
         <<"E", "r", "r", "o", "r", ":", " ", "G", "e", "m", "i", "n",
           "i", " ", "m", "o", "d", "e", "l", " ", "n", "o", "t", " ",
           "a", "v", "a", "i", "l", "a", "b", "l", "e", ".">>
    [] s = "\n\n(Source: General Knowledge - No specific documents found)" ->
         <<"\n", "\n", "(", "S", "o", "u", "r", "c", "e", ":", " ", "G",
           "e", "n", "e", "r", "a", "l", " ", "K", "n", "o", "w", "l",
           "e", "d", "g", "e", " ", "-", " ", "N", "o", " ", "s", "p",
           "e", "c", "i", "f", "i", "c", " ", "d", "o", "c", "u", "m",
           "e", "n", "t", "s", " ", "f", "o", "u", "n", "d", ")">>
    [] s = PlanApology ->
         <<"S", "o", "r", "r", "y", ",", " ", "I", " ", "c", "o", "u",
           "l", "d", "n", "'", "t", " ", "g", "e", "n", "e", "r", "a",
           "t", "e", " ", "a", " ", "d", "e", "t", "a", "i", "l", "e",
           "d", " ", "p", "l", "a", "n", " ", "f", "o", "r", " ", "t",
           "h", "a", "t", " ", "r", "e", "q", "u", "e", "s", "t", ".">>

\* str.isdigit on one character of these texts
IsDigit(c) == c \in {"0", "1", "2", "3", "4", "5", "6", "7", "8", "9"}

RECURSIVE CharsOfAll(_)
\* the characters of the concatenation of the pieces
CharsOfAll(pieces) ==
  IF pieces = <<>> THEN <<>>
  ELSE CharsOf(Head(pieces)) \o CharsOfAll(Tail(pieces))

\* the string generate_response returns, f"{parsed_response}{source_suffix}"
\* or its error string, as its characters
AnswerChars(answer) == CharsOfAll(answer.body) \o CharsOf(answer.suffix)

\* what json.load of the API description file gives: the file is absent,
\* cannot be read or parsed, lists functions, lists models, or has neither
ApiSpecFiles == {"absent", "unreadable", "functions", "models", "neither"}

\* gemini_api_summary: the capabilities the file lists, or the default
GeminiApiSummary(file) ==
  IF file \in {"functions", "models"}
  THEN "Specific capabilities include: <capabilities>"
  ELSE "General text generation, summarization, and question answering."

\* planning_instruction: the fixed instruction with the assistants'
\* description (the summary in it) and the user's request; as the
\* task_instruction of the call it is a non-empty string
PlanningInstruction(summary, query) ==
  JStr(<<"Based on the user's request, ...", summary, "User Request: ">> \o query)

\* a variant that takes any answer for a plan
LooksLikePlanAlways(plan_text) == TRUE

\* the test of generate_plan on the answer: it is not empty and one of
\* its characters is a digit
LooksLikePlan(plan_text) ==
  plan_text # <<>> /\ \E i \in 1..Len(plan_text) : IsDigit(plan_text[i])

\* a request body of /api/generate_plan
PlanRequest(hasQuery, query) == [hasQuery |-> hasQuery, query |-> query]

\* generate_plan on one request body: the call it makes and its response
GeneratePlanResult(req, file, gen) ==
  IF ~req.hasQuery
  THEN [calls |-> <<>>,
        resp  |-> Response(400, "error", <<"Missing query in request body.">>, "")]
  ELSE LET query     == Strip(req.query)
           answer    == GenerateResponse(
                          <<"P","l","a","n"," ","f","o","r",":"," ">> \o query,
                          <<>>, "none",
                          PlanningInstruction(GeminiApiSummary(file), query), gen)
           plan_text == AnswerChars(answer)
       IN  [calls |-> <<Call("generate", <<>>, "none")>>,
            resp  |-> Response(200, "plan",
                        IF LooksLikePlan(plan_text) THEN plan_text
                        ELSE CharsOf(PlanApology), "")]

(* ------------------------------------------------------------------ *)
(* File names, paths and the two directories                           *)
(* ------------------------------------------------------------------ *)
\* a file name is the sequence of its dot-separated parts, each part a
\* sequence of characters: "t.mp3" is << <<"t">>, <<"m","p","3">> >>
FTalk  == << <<"t">>, <<"M","P","3">> >>
FPdf   == << <<"p">>, <<"p","d","f">> >>
FNotes == << <<"n">>, <<"t","x","t">> >>
FZip   == << <<"z">>, <<"z","i","p">> >>

Filenames == {FTalk, FPdf, FNotes, FZip}

\* filename.split('.')[-1].lower()
Ext(filename) == Lower(filename[Len(filename)])

UPLOAD_FOLDER == "uploads"
PERSISTENT_DOCUMENTS_DIR == "persistent_documents"

\* os.path.join(dir, filename); a bare file name has dir ""
Path(dir, filename) == [dir |-> dir, name |-> filename]

\* content of a path that holds no file
NoFile == "-"
Contents == {"A", "B"}

\* os.path.exists on a directory listing
Exists(dirmap, filename) == dirmap[filename] # NoFile

(* ------------------------------------------------------------------ *)
(* Messages of the ingestion: the words of the string, in order        *)
(* ------------------------------------------------------------------ *)
MediaWord(type) ==
  CASE type = "video" -> "Video"
    [] type = "audio" -> "Audio"
    [] type = "pdf"   -> "PDF"
    [] OTHER          -> "Text"

MsgProcessed(type) == <<MediaWord(type), "file", "<filename>", "processed.">>

MsgNoText(type) ==
  IF type = "text"
  THEN <<"Could", "not", "process", "text", "file", "<filename>.">>
  ELSE <<"Could", "not", "extract", "text", "from", type, "file", "<filename>.">>

MsgUnsupported == <<"Unsupported", "file", "type:", "<ext>.">>

MsgMoved == <<"File", "moved", "to", "persistent", "storage.">>

\* a variant that reports a failed move with the generic message
MsgMoveFailedGeneric ==
  <<"An", "internal", "error", "occurred", "while", "processing",
    "<filename>.">>

MsgMoveFailed ==
  <<"Processed", "<filename>", "but", "failed", "to", "move", "file:",
    "<move_error>">>

MsgMissingPdf ==
  <<"Missing", "dependencies", "for", "PDF", "processing.", "Install",
    "with:", "pip", "install", "'unstructured[pdf]'">>

MsgMissingText ==
  <<"Missing", "dependencies", "for", "text", "file", "processing.">>

MsgInternal ==
  <<"An", "internal", "error", "occurred", "while", "processing",
    "<filename>.">>

(* ------------------------------------------------------------------ *)
(* process_uploaded_file                                               *)
(* ------------------------------------------------------------------ *)
\* media type the extension selects, "" for an unsupported extension
FileType(ext) ==
  CASE ext \in {<<"m","p","4">>, <<"a","v","i">>, <<"m","o","v">>} -> "video"
    [] ext \in {<<"m","p","3">>, <<"w","a","v">>, <<"o","g","g">>,
                <<"f","l","a","c">>} -> "audio"
    [] ext \in {<<"p","d","f">>} -> "pdf"
    [] ext \in {<<"t","x","t">>, <<"m","d">>, <<"p","y">>, <<"j","s">>,
                <<"h","t","m","l">>, <<"c","s","s">>, <<"j","s","o","n">>,
                <<"c","s","v">>} -> "text"
    [] OTHER -> ""

\* the text a working extractor gets out of a file with this content
TextOf(content) ==
  CASE content = "A" -> "text of A"
    [] content = "B" -> "text of B"
    [] OTHER         -> ""

\* the chunks the splitter makes of a text file with this content
ChunksOf(content, n) ==
  IF TextOf(content) = "" THEN <<>>
  ELSE [i \in 1..n |-> TextOf(content) \o " #" \o ToString(i)]

\* _extract_text_from_video / _audio / _pdf: the text, or "" when the
\* extractor fails or understands nothing (they catch their exceptions)
ExtractText(content, outcome) ==
  IF outcome = "text" THEN TextOf(content) ELSE ""

\* the split documents of the uploaded file that _load_and_split_text_files
\* loaded: their source metadata is the path the loader read them from
RelevantDocs(filepath, content, outcome, n) ==
  IF outcome = "text"
  THEN [i \in 1..Len(ChunksOf(content, n)) |->
          [page_content |-> ChunksOf(content, n)[i], source |-> filepath,
           type |-> "text"]]
  ELSE <<>>

\* an optional dependency is missing for this media type: the extractor
\* raises ImportError before doing anything
RaisesImportError(type, pdfAvailable, textAvailable) ==
  \/ type = "pdf"  /\ ~pdfAvailable
  \/ type = "text" /\ ~textAvailable

\* the chunks the file type branch hands to the store
BranchDocs(filepath, filename, type, content, env) ==
  IF type = "text"
  THEN RelevantDocs(filepath, content, env.extract, env.nchunks)
  ELSE IF ExtractText(content, env.extract) # ""
       THEN << [page_content |-> ExtractText(content, env.extract),
                source |-> Path("", filename), type |-> type] >>
       ELSE <<>>

\* a variant that leaves the temporary file where it is
CleanupOnFailureNever(temp, filename, processing_successful) == temp

\* the finally block: remove the temporary file when processing was not
\* successful and the file is still there
CleanupOnFailure(temp, filename, processing_successful) ==
  IF ~processing_successful /\ Exists(temp, filename)
  THEN [temp EXCEPT ![filename] = NoFile]
  ELSE temp

\* process_uploaded_file(filepath, filename, chromadb_instance,
\* persistent_dir) on the directories temp and persistent and the
\* collection coll
ProcessUploadedFile(filename, temp, persistent, coll, firstId, pdfAvailable, textAvailable, env) ==
  LET filepath == Path(UPLOAD_FOLDER, filename)
      content  == temp[filename]
      type     == FileType(Ext(filename))
      same     == [temp |-> temp, persistent |-> persistent, coll |-> coll,
                   added |-> 0]
  IN
  IF type = ""
  THEN [same EXCEPT !.temp = CleanupOnFailure(temp, filename, FALSE)]
       @@ [ok |-> FALSE, message |-> MsgUnsupported, log |-> <<>>]
  ELSE IF RaisesImportError(type, pdfAvailable, textAvailable)
  THEN [same EXCEPT !.temp = CleanupOnFailure(temp, filename, FALSE)]
       @@ [ok |-> FALSE,
           message |-> IF type = "pdf" THEN MsgMissingPdf ELSE MsgMissingText,
           log |-> <<"extract">>]
  ELSE IF env.extract = "raise"
  THEN [same EXCEPT !.temp = CleanupOnFailure(temp, filename, FALSE)]
       @@ [ok |-> FALSE, message |-> MsgInternal, log |-> <<"extract">>]
  ELSE
  LET docs == BranchDocs(filepath, filename, type, content, env)
      processing_successful == docs # <<>>
      coll2 == IF type = "text"
               THEN AddDocuments(coll, firstId, docs, env.addOk)
               ELSE AddTexts(coll, firstId, [i \in 1..Len(docs) |-> docs[i].page_content],
                             Path("", filename), type, env.addOk)
  IN
  IF ~processing_successful
  THEN [same EXCEPT !.temp = CleanupOnFailure(temp, filename, FALSE)]
       @@ [ok |-> FALSE, message |-> MsgNoText(type), log |-> <<"extract">>]
  ELSE IF env.moveOk
  THEN [temp |-> [temp EXCEPT ![filename] = NoFile],
        persistent |-> [persistent EXCEPT ![filename] = content],
        coll |-> coll2, added |-> Len(coll2) - Len(coll),
        ok |-> TRUE, message |-> MsgProcessed(type) \o MsgMoved,
        log |-> <<"extract", "add", "move">>]
  ELSE [temp |-> CleanupOnFailure(temp, filename, processing_successful),
        persistent |-> persistent,
        coll |-> coll2, added |-> Len(coll2) - Len(coll),
        ok |-> FALSE, message |-> MsgMoveFailed,
        log |-> <<"extract", "add", "move">>]

(* ------------------------------------------------------------------ *)
(* upload_file                                                         *)
(* ------------------------------------------------------------------ *)
\* the file name the client sent: leading ".." directory components and
\* the name proper; "" is no component and no name
RawName(dirs, name) == [dirs |-> dirs, name |-> name]

\* file.filename == ''
IsEmptyName(raw) == raw.dirs = <<>> /\ raw.name = <<>>

\* werkzeug's secure_filename on such a name: the separators and the
\* leading dots go, the name proper stays ("" when there is none)
SecureFilename(raw) == raw.name

\* parameters process_uploaded_file declares
ProcessParams == {"filepath", "filename", "chromadb_instance", "persistent_dir"}

\* keyword arguments of the call in upload_file
UploadCallKeywords == {"file_context"}

\* Python binds a call only if every keyword names a declared parameter;
\* otherwise the call raises TypeError before the body runs
CallBinds(keywords, params) == keywords \subseteq params

\* message.lower(), word by word
LowerWord(w) ==
  CASE w = "An"          -> "an"
    [] w = "Missing"     -> "missing"
    [] w = "Processed"   -> "processed"
    [] w = "Could"       -> "could"
    [] w = "Unsupported" -> "unsupported"
    [] w = "Video"       -> "video"
    [] w = "Audio"       -> "audio"
    [] w = "Text"        -> "text"
    [] w = "PDF"         -> "pdf"
    [] w = "File"        -> "file"
    [] w = "Install"     -> "install"
    [] OTHER             -> w


\* status code upload_file gives a failure message
FailureStatus(message) ==
  IF Contains(<<"Missing", "dependencies">>, message) THEN 501
  ELSE IF Contains(<<"internal", "error">>,
                   [i \in 1..Len(message) |-> LowerWord(message[i])]) THEN 500
       ELSE 400

\* a variant without the pre-check
AlreadyStoredNever(persistent, filename) == FALSE

\* does the durable directory already hold this name (the pre-check)
AlreadyStored(persistent, filename) == Exists(persistent, filename)

\* the validation part of upload_file, up to the existence pre-check:
\* the response that rejects the request, or status 0 to go on
UploadValidate(req, persistent) ==
  IF ~req.hasFile
  THEN Response(400, "error", <<"No file part in the request.">>, "")
  ELSE IF IsEmptyName(req.raw)
  THEN Response(400, "error", <<"No file selected for upload.">>, "")
  ELSE IF SecureFilename(req.raw) = <<>>
  THEN Response(400, "error", <<"Invalid filename provided.">>, "")
  ELSE IF AlreadyStored(persistent, SecureFilename(req.raw))
  THEN Response(409, "error",
         <<"File", "<filename>", "already", "exists.", "Please", "rename",
           "and", "upload", "again.">>, "")
  ELSE Response(0, "", <<>>, "")

(* ------------------------------------------------------------------ *)
(* load_data.py: load_lines_from_files, load_into_chroma               *)
(* ------------------------------------------------------------------ *)
MAX_DOC_SIZE == 3500
MAX_BATCH_SIZE == 50

RECURSIVE WordsFrom(_, _, _)
\* str.split(): the maximal runs of non-whitespace characters from
\* position i on, cur being the run under way
WordsFrom(s, i, cur) ==
  IF i > Len(s) THEN (IF cur = <<>> THEN <<>> ELSE <<cur>>)
  ELSE IF IsSpace(s[i])
       THEN (IF cur = <<>> THEN <<>> ELSE <<cur>>) \o WordsFrom(s, i + 1, <<>>)
       ELSE WordsFrom(s, i + 1, Append(cur, s[i]))


RECURSIVE JoinWords(_)
\* " ".join(words)
JoinWords(ws) ==
  IF ws = <<>> THEN <<>>
  ELSE IF Len(ws) = 1 THEN ws[1]
       ELSE ws[1] \o SP \o JoinWords(Tail(ws))

Placeholder == <<".", ".", ".">>

\* textwrap.shorten(text, width, placeholder="..."): whitespace runs
\* collapse to one space; a text that is still too wide keeps the longest
\* run of leading words that fits together with the placeholder
Shorten(text, width) ==
  LET ws   == WordsFrom(text, 1, <<>>)
      full == JoinWords(ws)
      fits == {k \in 0..Len(ws) :
                 Len(JoinWords(SubSeq(ws, 1, k))) + Len(Placeholder) <= width}
      most == CHOOSE k \in fits : \A j \in fits : j <= k
  IN  IF Len(full) <= width THEN full
      ELSE JoinWords(SubSeq(ws, 1, most)) \o Placeholder

\* a file of the documents directory: its name and its lines
DocFile(filename, lines) == [filename |-> filename, lines |-> lines]

\* the documents and metadatas one file contributes: one per non-blank
\* line, stripped and shortened, with the file name and the line number
FileEntries(file) ==
  LET kept == SelectSeq([i \in 1..Len(file.lines) |-> i],
                        LAMBDA i : Strip(file.lines[i]) # <<>>)
  IN  [k \in 1..Len(kept) |->
         [document |-> Shorten(Strip(file.lines[kept[k]]), MAX_DOC_SIZE),
          metadata |-> [filename |-> file.filename, line_number |-> kept[k]]]]

RECURSIVE LoadLinesFromFiles(_)
\* load_lines_from_files: documents and metadatas of all files, zipped
LoadLinesFromFiles(files) ==
  IF files = <<>> THEN <<>>
  ELSE FileEntries(Head(files)) \o LoadLinesFromFiles(Tail(files))

\* what the store does during one load: collection.get and
\* collection.count work or raise, addFails are the batches (numbered
\* from 1) whose collection.add raises, and onDup is what collection.add
\* does with an id the collection already holds: it raises for the whole
\* batch ("raise") or leaves such a record out ("skip"), depending on the
\* version of the store; it never replaces the stored record
LoadEnv(getOk, countOk, addFails, onDup) ==
  [getOk |-> getOk, countOk |-> countOk, addFails |-> addFails,
   onDup |-> onDup]

\* the ids the collection holds
IdsOf(coll) == {coll[i].id : i \in 1..Len(coll)}

\* existing_docs_set: the stored texts, or nothing when collection.get raises
ExistingDocsSet(coll, getOk) ==
  IF getOk THEN {coll[i].document : i \in 1..Len(coll)} ELSE {}

\* new_docs, new_meta: the entries whose text is not in existing_docs_set
NewDocs(entries, coll, getOk) ==
  LET existing_docs_set == ExistingDocsSet(coll, getOk)
  IN  SelectSeq(entries, LAMBDA e : e.document \notin existing_docs_set)

\* ids = [str(start_id + i) for i in range(len(new_docs))]
NewIds(start_id, n) == [i \in 1..n |-> ToString(start_id + i - 1)]

\* collection.add(ids, documents, metadatas) inside its try block: the
\* batch is appended, or nothing is when the call raises; records under
\* an id already stored are never written
CollectionAdd(coll, batch, raises, onDup) ==
  LET stored == IdsOf(coll)
      clash  == \E k \in 1..Len(batch) : batch[k].id \in stored
  IN  IF raises \/ (clash /\ onDup = "raise") THEN coll
      ELSE coll \o SelectSeq(batch, LAMBDA e : e.id \notin stored)

RECURSIVE AddBatches(_, _, _, _, _)
\* the batch loop: entries i .. i + MAX_BATCH_SIZE - 1 of new go to
\* collection.add under their ids; a batch whose add raises is skipped
\* and the loop goes on with the next
AddBatches(coll, new, ids, i, env) ==
  IF i > Len(new) THEN coll
  ELSE LET last  == Min(i + MAX_BATCH_SIZE - 1, Len(new))
           batch == [k \in 1..(last - i + 1) |->
                       [id |-> ids[i + k - 1],
                        document |-> new[i + k - 1].document,
                        metadata |-> new[i + k - 1].metadata]]
           b     == ((i - 1) \div MAX_BATCH_SIZE) + 1
       IN  AddBatches(CollectionAdd(coll, batch, b \in env.addFails, env.onDup),
                      new, ids, i + MAX_BATCH_SIZE, env)

\* load_into_chroma: the entries whose text is not stored yet are added
\* under the ids count, count + 1, ...; raised when collection.count lets
\* its exception through
LoadIntoChroma(entries, coll, env) ==
  LET new == NewDocs(entries, coll, env.getOk)
  IN  IF new = <<>> THEN [coll |-> coll, raised |-> FALSE]
      ELSE IF ~env.countOk THEN [coll |-> coll, raised |-> TRUE]
      ELSE [coll |-> AddBatches(coll, new, NewIds(Len(coll), Len(new)), 1, env),
            raised |-> FALSE]

(* ------------------------------------------------------------------ *)
(* Inputs                                                              *)
(* ------------------------------------------------------------------ *)
QFiles    == <<"h","o","w"," ","m","a","n","y"," ","f","i","l","e","s"," ",
               "d","o"," ","y","o","u"," ","h","a","v","e">>
QApples   == <<"h","o","w"," ","m","a","n","y"," ","a","p","p","l","e","s">>
QList     == <<"l","i","s","t"," ","m","y"," ","d","o","c","u","m","e","n","t","s">>
QUpper    == <<" ","C","o","u","n","t"," ","F","I","L","E","S"," ">>
QDiscount == <<"d","i","s","c","o","u","n","t"," ","i","t","e","m","s">>
QEmpty    == <<>>

QueryRequest(hasQuery, query, task_instruction, external_context) ==
  [hasQuery |-> hasQuery, query |-> query,
   task_instruction |-> task_instruction,
   external_context |-> external_context]

QueryRequests ==
  {QueryRequest(FALSE, <<>>, JNull, JNull)}
  \cup {QueryRequest(TRUE, t, ti, ec) :
          t  \in {QFiles, QApples, QList, QUpper, QDiscount, QEmpty},
          ti \in {JNull, JStr(<<>>), JStr(<<"Summarize the context.">>)},
          ec \in {JNull, JList(<<>>), JList(<<"X", "Y">>), JList(<<"">>),
                  JStr(<<"ctx">>)}}

SearchResponses ==
  {SearchResponse("network", "", <<>>, ""),
   SearchResponse("none", "", <<>>, ""),
   SearchResponse("none", "abs", <<Topic("t1", <<>>), Topic("", <<"s1", "s2">>),
                                   Topic("t3", <<>>)>>, ""),
   SearchResponse("none", "", <<Topic("", <<>>)>>, "def")}

GenOutcomes ==
  {GenText("T"), GenParts(<<"P1", "P2">>), GenEmpty, GenUnreadable,
   GenRaise("quota exceeded")}

IngestEnv(extract, nchunks, addOk, moveOk) ==
  [extract |-> extract, nchunks |-> nchunks, addOk |-> addOk,
   moveOk |-> moveOk]

UploadRequest(hasFile, raw, content) ==
  [hasFile |-> hasFile, raw |-> raw, content |-> content]

UploadRequests ==
  {UploadRequest(FALSE, RawName(<<>>, <<>>), NoFile)}
  \cup {UploadRequest(TRUE, r, c) :
          r \in {RawName(<<>>, <<>>), RawName(<<"..">>, <<>>),
                 RawName(<<>>, FNotes), RawName(<<>>, FPdf),
                 RawName(<<"..">>, FNotes)},
          c \in Contents}

\* the environments that differ in something the call for this file can
\* observe: an extractor that is not reached, a chunk count for a file
\* that is not split, an add or a move that is not reached are left at
\* one fixed value
EnvsFor(filename, pdfAvailable, textAvailable) ==
  LET type    == FileType(Ext(filename))
      extract == type # "" /\ ~RaisesImportError(type, pdfAvailable, textAvailable)
  IN  {env \in {IngestEnv(x, n, a, m) :
                    x \in {"text", "empty", "raise"}, n \in 1..MaxSplit,
                    a \in BOOLEAN, m \in BOOLEAN} :
         /\ ~extract => env.extract = "empty"
         /\ env.extract # "text" => (env.addOk /\ env.moveOk)
         /\ (type # "text" \/ env.extract # "text") => env.nchunks = 1}

\* the environments of an upload: the splitter leaves the file in one piece
UploadEnvs(filename, pdfAvailable, textAvailable) ==
  {env \in EnvsFor(filename, pdfAvailable, textAvailable) : env.nchunks = 1}

\* files of a documents directory, with their lines
DocFileA ==
  DocFile("a.txt", << <<"x">>, <<" ", "x", " ">>, <<" ">>, <<"y", " ", " ", "z">> >>)
DocFileB == DocFile("b.txt", << <<"y", " ", "z">>, <<"w">> >>)

\* the decimal digits of k < 100 as characters
Digits(k) ==
  LET digit == <<"0", "1", "2", "3", "4", "5", "6", "7", "8", "9">>
  IN  IF k < 10 THEN <<digit[k + 1]>>
      ELSE <<digit[(k \div 10) + 1], digit[(k % 10) + 1]>>

\* line k of the long file
LineNo(k) == <<"n">> \o Digits(k)

\* a file with one line more than a batch holds
DocFileC == DocFile("c.txt", [k \in 1..(MAX_BATCH_SIZE + 1) |-> LineNo(k)])

\* os.listdir(documents_directory) with the files' contents
Directories ==
  {<<>>, <<DocFileA>>, <<DocFileB>>, <<DocFileB, DocFileA>>, <<DocFileC>>}

\* the environments that differ in something this load can observe:
\* collection.count is called only with new entries, collection.add only
\* after the count and once per batch, and the treatment of a stored id
\* shows only when one of the new ids is stored
LoadEnvsFor(entries, coll) ==
  UNION {
    LET new    == NewDocs(entries, coll, g)
        ids    == NewIds(Len(coll), Len(new))
        stored == IdsOf(coll)
        clash  == \E k \in 1..Len(ids) : ids[k] \in stored
        last   == (Len(new) + MAX_BATCH_SIZE - 1) \div MAX_BATCH_SIZE
    IN  {env \in {LoadEnv(g, c, f, d) :
                    c \in BOOLEAN, f \in SUBSET (1..last),
                    d \in {"raise", "skip"}} :
           /\ new = <<>> => env.countOk
           /\ ~env.countOk => env.addFails = {}
           /\ (~env.countOk \/ ~clash) => env.onDup = "raise"}
    : g \in BOOLEAN}

PlanRequests ==
  {PlanRequest(FALSE, <<>>)}
  \cup {PlanRequest(TRUE, t) :
          t \in {QFiles, <<"3", " ", "s", "t", "e", "p", "s">>, QEmpty}}

PlanGenOutcomes ==
  {GenText(PlanNumbered), GenText(PlanProse), GenText(""),
   GenParts(<<PartStep, PartOne>>), GenParts(<<PartStep>>), GenEmpty,
   GenUnreadable, GenRaise(ReasonQuota), GenRaise(ReasonReset)}

\* the num_results a search request may carry
MaxNumResults == 4

SearchRequests ==
  {SearchRequest(FALSE, -1)}
  \cup {SearchRequest(TRUE, n) : n \in -1..MaxNumResults}

\* answers of the provider for /api/search: the failures of the request,
\* of the status check, of the decoding and of the reading of the data,
\* and answers with and without abstract, topics and definition
SearchAnswers ==
  SearchResponses
  \cup {SearchResponse("http", "", <<>>, ""),
        SearchResponse("json", "", <<>>, ""),
        SearchResponse("other", "abs", <<>>, ""),
        SearchResponse("none", "abs", <<>>, "def"),
        SearchResponse("none", "", <<Topic("t1", <<>>), Topic("t2", <<"s1", "", "s2">>),
                                     Topic("t3", <<>>), Topic("t4", <<>>)>>, "def")}

Workers == 1..NumWorkers

(* ------------------------------------------------------------------ *)
(* State                                                               *)
(* ------------------------------------------------------------------ *)
VARIABLES
  collection,     \* the chunks of rag_collection, in the order added
  nextId,         \* stands for uuid4: the next id never handed out before
  tempFiles,      \* UPLOAD_FOLDER: file name -> content, NoFile if absent
  persistent,     \* PERSISTENT_DOCUMENTS_DIR: file name -> content
  pdfAvailable,   \* partition_pdf was importable when the module loaded
  textAvailable,  \* DirectoryLoader and CharacterTextSplitter were importable
  up,             \* per /api/upload worker: position, request, what the
                  \* collaborators do for it, response
  ingest,         \* the last call of process_uploaded_file: the file, what
                  \* its collaborators did, and the result
  ingestCalls,    \* number of calls of process_uploaded_file so far
  q,              \* the /api/query request in flight and its answer
  documents_collection,  \* the collection load_data.py fills
  load,           \* the runs of load_data.main: how many, and the last one
  plan,           \* the /api/generate_plan request in flight and its answer
  srch            \* the /api/search request in flight and its answer

vars == <<collection, nextId, tempFiles, persistent, pdfAvailable,
          textAvailable, up, ingest, ingestCalls, q, documents_collection,
          load, plan, srch>>

NoResponse == Response(0, "", <<>>, "")

IdleWorker ==
  [pc |-> "idle", filename |-> <<>>, content |-> NoFile,
   env |-> IngestEnv("empty", 1, FALSE, FALSE), resp |-> NoResponse,
   log |-> <<>>, tempLeft |-> FALSE, done |-> FALSE]

NoIngest ==
  [done |-> FALSE, filename |-> <<>>, content |-> NoFile,
   env |-> IngestEnv("empty", 1, FALSE, FALSE), ok |-> FALSE,
   message |-> <<>>, log |-> <<>>, added |-> 0, tempLeft |-> FALSE]

NoQuery ==
  [state |-> "idle", req |-> QueryRequest(FALSE, <<>>, JNull, JNull),
   storeOk |-> FALSE, searchResp |-> SearchResponse("none", "", <<>>, ""),
   gen |-> GenEmpty, calls |-> <<>>, resp |-> NoResponse]

NoLoad ==
  [done |-> FALSE, calls |-> 0, dir |-> <<>>,
   env |-> LoadEnv(FALSE, TRUE, {}, "raise"), added |-> 0, raised |-> FALSE]

NoPlan ==
  [state |-> "idle", req |-> PlanRequest(FALSE, <<>>), file |-> "absent",
   gen |-> GenEmpty, calls |-> <<>>, resp |-> NoResponse]

NoSearch ==
  [state |-> "idle", req |-> SearchRequest(FALSE, -1),
   searchResp |-> SearchResponse("none", "", <<>>, ""), resp |-> NoResponse]

EmptyDir == [f \in Filenames |-> NoFile]

\* what the persistent client and the durable directory hold when the
\* process starts: nothing, or what an earlier run left after it ingested
\* the text file FNotes in n chunks
StoreAtStart(n) ==
  IF n = 0
  THEN [coll |-> <<>>, persistent |-> EmptyDir, added |-> 0]
  ELSE ProcessUploadedFile(FNotes, [EmptyDir EXCEPT ![FNotes] = "A"],
         EmptyDir, <<>>, 1, TRUE, TRUE, IngestEnv("text", n, TRUE, TRUE))

\* what the load_data collection holds when the process starts: nothing,
\* or what an earlier run of the script left, one that loaded the short
\* file, or one that loaded the long file while the add of its first
\* batch raised. No operation reads both collections, so the start
\* states pair the cases of the two up instead of crossing them
LoadedAtStart(n) ==
  IF n = 0 THEN <<>>
  ELSE IF n = 1
  THEN LoadIntoChroma(LoadLinesFromFiles(<<DocFileB>>), <<>>,
                      LoadEnv(TRUE, TRUE, {}, "raise")).coll
  ELSE LoadIntoChroma(LoadLinesFromFiles(<<DocFileC>>), <<>>,
                      LoadEnv(TRUE, TRUE, {1}, "raise")).coll

Init ==
  /\ \E n \in {0, 1, MaxStored} :
       /\ collection = StoreAtStart(n).coll
       /\ persistent = StoreAtStart(n).persistent
       /\ nextId = 1 + StoreAtStart(n).added
       /\ documents_collection = LoadedAtStart(n)
  /\ tempFiles = EmptyDir
  /\ pdfAvailable \in BOOLEAN
  /\ textAvailable \in BOOLEAN
  /\ up = [w \in Workers |-> IdleWorker]
  /\ ingest = NoIngest
  /\ ingestCalls = 0
  /\ q = NoQuery
  /\ load = NoLoad
  /\ plan = NoPlan
  /\ srch = NoSearch

(* ------------------------------------------------------------------ *)
(* /api/query                                                          *)
(* ------------------------------------------------------------------ *)
\* a POST /api/query request arrives
QueryArrive ==
  /\ q.state = "idle"
  /\ \E req \in QueryRequests : q' = [NoQuery EXCEPT !.state = "pending", !.req = req]
  /\ UNCHANGED <<collection, nextId, tempFiles, persistent, pdfAvailable,
                 textAvailable, up, ingest, ingestCalls,
                 documents_collection, load, plan, srch>>

\* handle_query runs on the request, with what the store, the search
\* provider and the generator do for it
HandleQuery ==
  /\ q.state = "pending"
  /\ \E storeOk \in BOOLEAN, searchResp \in SearchResponses, gen \in GenOutcomes :
       LET res == HandleQueryResult(q.req, collection, storeOk, searchResp, gen)
       IN  q' = [state |-> "done", req |-> q.req, storeOk |-> storeOk,
                 searchResp |-> searchResp, gen |-> gen,
                 calls |-> res.calls, resp |-> res.resp]
  /\ UNCHANGED <<collection, nextId, tempFiles, persistent, pdfAvailable,
                 textAvailable, up, ingest, ingestCalls,
                 documents_collection, load, plan, srch>>

\* the response has gone to the client
QueryRespond ==
  /\ q.state = "done"
  /\ q' = NoQuery
  /\ UNCHANGED <<collection, nextId, tempFiles, persistent, pdfAvailable,
                 textAvailable, up, ingest, ingestCalls,
                 documents_collection, load, plan, srch>>

(* ------------------------------------------------------------------ *)
(* /api/generate_plan                                                  *)
(* ------------------------------------------------------------------ *)
\* a POST /api/generate_plan request arrives
PlanArrive ==
  /\ plan.state = "idle"
  /\ \E req \in PlanRequests : plan' = [NoPlan EXCEPT !.state = "pending", !.req = req]
  /\ UNCHANGED <<collection, nextId, tempFiles, persistent, pdfAvailable,
                 textAvailable, up, ingest, ingestCalls, q,
                 documents_collection, load, srch>>

\* generate_plan runs on the request, with what the API description file
\* holds and what the generator does
GeneratePlan ==
  /\ plan.state = "pending"
  /\ \E file \in ApiSpecFiles, gen \in PlanGenOutcomes :
       LET res == GeneratePlanResult(plan.req, file, gen)
       IN  plan' = [state |-> "done", req |-> plan.req, file |-> file,
                    gen |-> gen, calls |-> res.calls, resp |-> res.resp]
  /\ UNCHANGED <<collection, nextId, tempFiles, persistent, pdfAvailable,
                 textAvailable, up, ingest, ingestCalls, q,
                 documents_collection, load, srch>>

\* the response has gone to the client
PlanRespond ==
  /\ plan.state = "done"
  /\ plan' = NoPlan
  /\ UNCHANGED <<collection, nextId, tempFiles, persistent, pdfAvailable,
                 textAvailable, up, ingest, ingestCalls, q,
                 documents_collection, load, srch>>

(* ------------------------------------------------------------------ *)
(* /api/search                                                         *)
(* ------------------------------------------------------------------ *)
\* a POST /api/search request arrives
SearchArrive ==
  /\ srch.state = "idle"
  /\ \E req \in SearchRequests :
       srch' = [NoSearch EXCEPT !.state = "pending", !.req = req]
  /\ UNCHANGED <<collection, nextId, tempFiles, persistent, pdfAvailable,
                 textAvailable, up, ingest, ingestCalls, q,
                 documents_collection, load, plan>>

\* handle_search runs on the request, with what the provider answers
HandleSearch ==
  /\ srch.state = "pending"
  /\ \E searchResp \in SearchAnswers :
       srch' = [state |-> "done", req |-> srch.req, searchResp |-> searchResp,
                resp |-> HandleSearchResult(srch.req, searchResp)]
  /\ UNCHANGED <<collection, nextId, tempFiles, persistent, pdfAvailable,
                 textAvailable, up, ingest, ingestCalls, q,
                 documents_collection, load, plan>>

\* the response has gone to the client
SearchRespond ==
  /\ srch.state = "done"
  /\ srch' = NoSearch
  /\ UNCHANGED <<collection, nextId, tempFiles, persistent, pdfAvailable,
                 textAvailable, up, ingest, ingestCalls, q,
                 documents_collection, load, plan>>

(* ------------------------------------------------------------------ *)
(* process_uploaded_file called with its four declared parameters      *)
(* ------------------------------------------------------------------ *)
\* a caller has put the temporary file at uploads/filename and calls
\* process_uploaded_file(filepath, filename, chromadb_instance, persistent_dir)
ProcessUploadedFileCall ==
  \E f \in Filenames, c \in Contents :
  \E env \in EnvsFor(f, pdfAvailable, textAvailable) :
    /\ ~Exists(tempFiles, f)
    /\ ingestCalls < MaxIngests
    /\ ingestCalls' = ingestCalls + 1
    /\ LET res == ProcessUploadedFile(f, [tempFiles EXCEPT ![f] = c],
                    persistent, collection, nextId, pdfAvailable,
                    textAvailable, env)
       IN  /\ collection' = res.coll
           /\ nextId' = nextId + res.added
           /\ tempFiles' = res.temp
           /\ persistent' = res.persistent
           /\ ingest' = [done |-> TRUE, filename |-> f, content |-> c,
                         env |-> env, ok |-> res.ok,
                         message |-> res.message, log |-> res.log,
                         added |-> res.added,
                         tempLeft |-> Exists(res.temp, f)]
    /\ UNCHANGED <<pdfAvailable, textAvailable, up, q, documents_collection,
                   load, plan, srch>>

(* ------------------------------------------------------------------ *)
(* /api/upload: one worker per request, its steps interleave           *)
(* ------------------------------------------------------------------ *)
\* upload_file up to the existence pre-check: the request is rejected, or
\* the worker goes on to save the file
UploadBegin(w) ==
  /\ up[w].pc = "idle"
  /\ \E req \in UploadRequests :
       LET rej == UploadValidate(req, persistent)
           f   == IF req.hasFile THEN SecureFilename(req.raw) ELSE <<>>
       IN  up' = [up EXCEPT ![w] =
                    IF rej.status # 0
                    THEN [IdleWorker EXCEPT
                            !.filename = f, !.resp = rej, !.done = TRUE,
                            !.tempLeft = IF f # <<>> THEN Exists(tempFiles, f)
                                         ELSE FALSE]
                    ELSE [IdleWorker EXCEPT
                            !.pc = "save", !.filename = f,
                            !.content = req.content]]
  /\ UNCHANGED <<collection, nextId, tempFiles, persistent, pdfAvailable,
                 textAvailable, ingest, ingestCalls, q,
                 documents_collection, load, plan, srch>>

\* file.save(filepath): the upload is written to uploads/filename
UploadSave(w) ==
  /\ up[w].pc = "save"
  /\ tempFiles' = [tempFiles EXCEPT ![up[w].filename] = up[w].content]
  /\ up' = [up EXCEPT ![w].pc = "process", ![w].log = <<"save">>]
  /\ UNCHANGED <<collection, nextId, persistent, pdfAvailable,
                 textAvailable, ingest, ingestCalls, q,
                 documents_collection, load, plan, srch>>

\* what upload_file does with the result of process_uploaded_file
UploadResponse(ok, message) ==
  IF ok THEN Response(200, "message", message, "")
  ELSE Response(FailureStatus(message), "error", message, "")

\* the rest of upload_file: the call of process_uploaded_file with the
\* keyword file_context and the handling of its result; a call that does
\* not bind raises TypeError, which the except branch turns into a 500
\* after removing the temporary file
UploadProcess(w) ==
  /\ up[w].pc = "process"
  /\ Len(collection) <= MaxStored + MaxIngests * MaxSplit
  /\ \E env \in UploadEnvs(up[w].filename, pdfAvailable, textAvailable) :
       LET f == up[w].filename
       IN  IF CallBinds(UploadCallKeywords, ProcessParams)
           THEN LET res == ProcessUploadedFile(f, tempFiles, persistent,
                             collection, nextId, pdfAvailable, textAvailable, env)
                IN  /\ collection' = res.coll
                    /\ nextId' = nextId + res.added
                    /\ tempFiles' = res.temp
                    /\ persistent' = res.persistent
                    /\ up' = [up EXCEPT ![w].pc = "idle", ![w].done = TRUE,
                                ![w].content = NoFile, ![w].env = env,
                                ![w].resp = UploadResponse(res.ok, res.message),
                                ![w].log = up[w].log \o <<"process">> \o res.log,
                                ![w].tempLeft = Exists(res.temp, f)]
           ELSE /\ tempFiles' = [tempFiles EXCEPT ![f] = NoFile]
                /\ up' = [up EXCEPT ![w].pc = "idle", ![w].done = TRUE,
                            ![w].content = NoFile, ![w].env = env,
                            ![w].resp = Response(500, "error",
                               <<"An", "unexpected", "internal", "error",
                                 "occurred", "during", "upload.">>, ""),
                            ![w].log = up[w].log \o
                               (IF Exists(tempFiles, f) THEN <<"remove">> ELSE <<>>),
                            ![w].tempLeft = FALSE]
                /\ UNCHANGED <<collection, nextId, persistent>>
  /\ UNCHANGED <<pdfAvailable, textAvailable, ingest, ingestCalls, q,
                 documents_collection, load, plan, srch>>

(* ------------------------------------------------------------------ *)
(* load_data.py run as a script                                        *)
(* ------------------------------------------------------------------ *)
\* main(): the lines of the files of the documents directory are loaded
\* into the collection
LoadData ==
  /\ load.calls < MaxLoads
  /\ \E dir \in Directories :
     LET entries == LoadLinesFromFiles(dir)
     IN
     \E env \in LoadEnvsFor(entries, documents_collection) :
       LET res == LoadIntoChroma(entries, documents_collection, env)
       IN  /\ documents_collection' = res.coll
           /\ load' = [done |-> TRUE, calls |-> load.calls + 1,
                       dir |-> [i \in 1..Len(dir) |-> dir[i].filename],
                       env |-> env,
                       added |-> Len(res.coll) - Len(documents_collection),
                       raised |-> res.raised]
  /\ UNCHANGED <<collection, nextId, tempFiles, persistent, pdfAvailable,
                 textAvailable, up, ingest, ingestCalls, q, plan,
                 srch>>

(* ------------------------------------------------------------------ *)
(* Specifications                                                      *)
(* ------------------------------------------------------------------ *)
Next ==
  \/ QueryArrive
  \/ HandleQuery
  \/ QueryRespond
  \/ PlanArrive
  \/ GeneratePlan
  \/ PlanRespond
  \/ SearchArrive
  \/ HandleSearch
  \/ SearchRespond
  \/ ProcessUploadedFileCall
  \/ LoadData
  \/ \E w \in Workers : UploadBegin(w)
  \/ \E w \in Workers : UploadSave(w)
  \/ \E w \in Workers : UploadProcess(w)

Spec == Init /\ [][Next]_vars

\* the query path alone
NextQuery ==
  \/ QueryArrive
  \/ HandleQuery
  \/ QueryRespond

SpecQuery == Init /\ [][NextQuery]_vars

\* the plan endpoint alone
NextPlan ==
  \/ PlanArrive
  \/ GeneratePlan
  \/ PlanRespond

SpecPlan == Init /\ [][NextPlan]_vars

\* the search endpoint alone
NextSearch ==
  \/ SearchArrive
  \/ HandleSearch
  \/ SearchRespond

SpecSearch == Init /\ [][NextSearch]_vars

\* process_uploaded_file alone
NextIngest == ProcessUploadedFileCall

SpecIngest == Init /\ [][NextIngest]_vars

\* load_data.py alone
NextLoad == LoadData

SpecLoad == Init /\ [][NextLoad]_vars

\* both ingestion paths: process_uploaded_file and load_data.py
NextIngestion ==
  \/ ProcessUploadedFileCall
  \/ LoadData

SpecIngestion == Init /\ [][NextIngestion]_vars

\* the /api/upload workers alone
NextUpload ==
  \/ \E w \in Workers : UploadBegin(w)
  \/ \E w \in Workers : UploadSave(w)
  \/ \E w \in Workers : UploadProcess(w)

SpecUpload == Init /\ [][NextUpload]_vars

(* ------------------------------------------------------------------ *)
(* Properties of the query path                                        *)
(* ------------------------------------------------------------------ *)
\* the caller supplied an external context: a non-empty list
SuppliedContext(req) ==
  req.external_context.kind = "list" /\ Len(req.external_context.items) > 0

\* the caller supplied a task instruction: a non-empty string
SuppliedTask(req) ==
  req.task_instruction.kind = "str" /\ Len(req.task_instruction.items) > 0

\* the request in q has been handled
Answered == q.state = "done" /\ q.req.hasQuery

Ops == [i \in 1..Len(q.calls) |-> q.calls[i].op]

Called(op) == \E i \in 1..Len(q.calls) : q.calls[i].op = op

LastCall == q.calls[Len(q.calls)]

Generated == q.calls # <<>> /\ LastCall.op = "generate"

\* C1: a query with a non-empty external_context list is answered from
\* that context (source_type external, documents = external_context) and
\* neither retrieve nor the web search is called for it
C1_ExternalContextWins ==
  (Answered /\ SuppliedContext(q.req)) =>
     /\ ~Called("retrieve")
     /\ ~Called("search")
     /\ Generated
     /\ LastCall.source_type = "external"
     /\ LastCall.documents = q.req.external_context.items

\* a count-worded query with a context is answered from the context while
\* the collection has chunks to offer
C1_Witness ==
  /\ Answered
  /\ q.req.external_context = JList(<<"X", "Y">>)
  /\ q.req.query = QFiles
  /\ collection # <<>>
  /\ q.storeOk
  /\ Ops = <<"generate">>

\* C2: the tiers run lazily and in order: the web search is called only
\* right after a retrieve that returned nothing, retrieve is called only
\* without a supplied external context, and a non-empty retrieve gives
\* source_type documents without any web search
C2_LazyFallback ==
  Answered =>
     /\ \A i \in 1..Len(q.calls) :
          q.calls[i].op = "search" =>
             /\ i > 1
             /\ q.calls[i - 1].op = "retrieve"
             /\ q.calls[i - 1].documents = <<>>
     /\ Called("retrieve") => ~SuppliedContext(q.req)
     /\ \A i \in 1..Len(q.calls) :
          (q.calls[i].op = "retrieve" /\ q.calls[i].documents # <<>>) =>
             /\ ~Called("search")
             /\ Generated
             /\ LastCall.source_type = "documents"

\* a non-empty retrieve on a full collection: seven chunks, no search
C2_Witness ==
  /\ Answered
  /\ Len(collection) > QueryNResults
  /\ Ops = <<"retrieve", "generate">>
  /\ Len(q.calls[1].documents) = QueryNResults

\* what each tier has to offer for the request in q
ExternalTier ==
  IF q.req.external_context.kind = "list"
  THEN q.req.external_context.items ELSE <<>>

DocumentsTier ==
  IF q.storeOk THEN CollectionQuery(collection, QueryNResults) ELSE <<>>

InternetTier == PerformInternetSearch(q.searchResp, DefaultNumResults)

\* C3: generation gets the first non-empty tier in the order external,
\* documents, internet, with exactly that tier's result; it gets
\* source_type none with no documents exactly when all three are empty
C3_FirstNonEmptyTier ==
  (Answered /\ Generated) =>
     /\ LastCall.source_type =
          (IF ExternalTier # <<>> THEN "external"
           ELSE IF DocumentsTier # <<>> THEN "documents"
           ELSE IF InternetTier # <<>> THEN "internet" ELSE "none")
     /\ LastCall.documents =
          (IF ExternalTier # <<>> THEN ExternalTier
           ELSE IF DocumentsTier # <<>> THEN DocumentsTier
           ELSE InternetTier)
     /\ (LastCall.source_type = "none" /\ LastCall.documents = <<>>)
          <=> (ExternalTier = <<>> /\ DocumentsTier = <<>> /\ InternetTier = <<>>)

\* the third tier answers: an empty list as context, a failing store,
\* three snippets from the web
C3_Witness ==
  /\ Answered /\ Generated
  /\ q.req.external_context = JList(<<>>)
  /\ collection # <<>>
  /\ LastCall.source_type = "internet"
  /\ Len(LastCall.documents) = DefaultNumResults

\* C4: a failing index query or a failing web search does not fail the
\* request: the failing tier counts as empty, the next tier is tried and
\* the generator is called, with source_type none when nothing was found
C4_RetrievalFailuresAbsorbed ==
  (Answered /\ (Called("retrieve") \/ Called("search"))) =>
     /\ q.resp.status = 200
     /\ q.resp.key = "answer"
     /\ Generated
     /\ \A i \in 1..Len(q.calls) :
          (q.calls[i].op = "retrieve" /\ ~q.storeOk) =>
             /\ q.calls[i].documents = <<>>
             /\ q.calls[i + 1].op = "search"
     /\ \A i \in 1..Len(q.calls) :
          (q.calls[i].op = "search" /\ q.searchResp.fail # "none") =>
             /\ q.calls[i].documents = <<>>
             /\ q.calls[i + 1].op = "generate"
             /\ q.calls[i + 1].source_type = "none"
             /\ q.calls[i + 1].documents = <<>>

\* both tiers fail over a collection that has chunks
C4_Witness ==
  /\ Answered
  /\ collection # <<>>
  /\ ~q.storeOk
  /\ q.searchResp.fail = "network"
  /\ Ops = <<"retrieve", "search", "generate">>
  /\ LastCall.source_type = "none"
  /\ q.resp.status = 200

\* C5: count_documents returns -1, not 0, when the store call raises, and
\* a count query then gets an error that differs from the answer given
\* for a collection that really holds no document
C5_CountSentinel ==
  /\ CountDocuments(collection, FALSE) = -1
  /\ (Answered /\ Called("count")) =>
        /\ ~q.storeOk =>
              /\ q.resp.key = "error"
              /\ q.resp.status = 500
              /\ q.resp.body # CountAnswer(0)
        /\ (q.storeOk /\ collection = <<>>) =>
              q.resp = Response(200, "answer", CountAnswer(0), "")

\* the count fails on a collection that is empty
C5_Witness ==
  /\ Answered
  /\ Ops = <<"count">>
  /\ ~q.storeOk
  /\ collection = <<>>
  /\ q.resp.status = 500

\* p is a prefix of s
HasPrefix(p, s) ==
  Len(p) <= Len(s) /\ \A i \in 1..Len(p) : s[i] = p[i]

\* p occurs somewhere in s
Occurs(p, s) ==
  \E k \in 0..Len(s) : HasPrefix(p, SubSeq(s, k + 1, Len(s)))

\* the lower-cased text of the query in q
QueryLowered == Lower(Strip(q.req.query))

\* C6: the intent test is a conjunction: a query without context and
\* instruction is answered as a document count exactly when its
\* lower-cased text has a count keyword and a document keyword; "how many
\* files do you have" is, "how many apples" and "list my documents" are not
C6_ConjunctiveIntent ==
  (Answered /\ ~Truthy(q.req.external_context) /\ ~Truthy(q.req.task_instruction)) =>
     /\ Called("count") <=>
          /\ \E kw \in COUNT_KEYWORDS : Occurs(kw, QueryLowered)
          /\ \E kw \in DOCUMENT_KEYWORDS : Occurs(kw, QueryLowered)
     /\ q.req.query = QFiles => Called("count")
     /\ q.req.query \in {QApples, QList} => ~Called("count")

\* "how many files do you have", sent alone, is answered with the count
C6_Witness ==
  /\ Answered
  /\ q.req.query = QFiles
  /\ q.req.external_context = JNull
  /\ q.req.task_instruction = JNull
  /\ Ops = <<"count">>
  /\ q.resp.status = 200

\* C7: the intent inference runs only when neither an external context
\* nor a task instruction is supplied; with either one a count-worded
\* query is not answered with the count but goes through the source
\* selection and the generation
C7_InstructionsBypassInference ==
  Answered =>
     /\ Called("count") => (~SuppliedContext(q.req) /\ ~SuppliedTask(q.req))
     /\ (SuppliedContext(q.req) \/ SuppliedTask(q.req)) =>
           /\ ~Called("count")
           /\ Generated
           /\ SuppliedContext(q.req) \/ Called("retrieve")

\* a count-worded query with a task instruction goes to retrieval
C7_Witness ==
  /\ Answered
  /\ q.req.query = QFiles
  /\ SuppliedTask(q.req)
  /\ q.req.external_context = JNull
  /\ Ops = <<"retrieve", "generate">>

(* ------------------------------------------------------------------ *)
(* Properties of the upload and ingestion path                         *)
(* ------------------------------------------------------------------ *)
\* C8: an upload whose sanitized name is already in durable storage is
\* rejected by the first step of the handler: the request ends with a 409,
\* nothing was saved or processed for it, and the temporary directory,
\* the collection and the durable directory are as they were
C8_StoredNameRejected ==
  [][\A w \in Workers :
       (/\ up[w].pc = "idle"
        /\ up'[w] # up[w]
        /\ up'[w].filename # <<>>
        /\ Exists(persistent, up'[w].filename))
       => /\ up'[w].pc = "idle"
          /\ up'[w].done
          /\ up'[w].resp.status = 409
          /\ up'[w].log = <<>>
          /\ tempFiles' = tempFiles
          /\ collection' = collection
          /\ persistent' = persistent]_vars

\* an upload under a name with directory parts is rejected because the
\* sanitized name is stored
C8_Witness ==
  \E w \in Workers :
    /\ up[w].done
    /\ up[w].resp.status = 409
    /\ up[w].filename = FNotes
    /\ persistent[FNotes] = "A"
    /\ up[w].log = <<>>
    /\ ~Exists(tempFiles, FNotes)

\* the collection holds a chunk whose source names the file
HasChunksOf(f) ==
  \E i \in 1..Len(collection) : collection[i].source.name = f

\* C9: ingestion is all or nothing: once an ingestion has returned, a
\* file is in durable storage exactly if the collection holds its chunks
C9_AllOrNothing ==
  ingest.done =>
    \A f \in Filenames : Exists(persistent, f) <=> HasChunksOf(f)

\* C10: when an ingestion returns a failure, the temporary file is gone
C10_TempRemovedOnFailure ==
  (ingest.done /\ ~ingest.ok) => ~Exists(tempFiles, ingest.filename)

\* the media types with an extractor
MediaTypes == {"video", "audio", "pdf", "text"}

\* the failure messages of process_uploaded_file other than the one for a
\* failed move
OtherFailureMessages ==
  {MsgUnsupported, MsgMissingPdf, MsgMissingText, MsgInternal}
  \cup {MsgNoText(t) : t \in MediaTypes}

\* the last ingestion added chunks and shutil.move then raised
MoveRaisedAfterAdd ==
  ingest.done /\ ingest.added > 0 /\ ~ingest.env.moveOk

\* C11: when chunks were added and the move then fails, the ingestion
\* returns a failure, not a success; its message says the file was
\* processed but the move failed, it is none of the other failure
\* messages, and no other failure carries it
C11_MoveFailureReported ==
  /\ MoveRaisedAfterAdd =>
       /\ ~ingest.ok
       /\ ingest.message \notin OtherFailureMessages
       /\ HasPrefix(<<"Processed">>, ingest.message)
       /\ Contains(<<"but", "failed", "to", "move", "file:">>, ingest.message)
  /\ (ingest.done /\ ~ingest.ok /\ ingest.env.moveOk) =>
       ~Contains(<<"failed", "to", "move">>, ingest.message)

\* an audio file is transcribed and indexed, and then cannot be moved
C11_Witness ==
  /\ MoveRaisedAfterAdd
  /\ ingest.filename = FTalk
  /\ HasChunksOf(FTalk)
  /\ ~Exists(persistent, FTalk)
  /\ ~ingest.ok

\* the call that has just returned failed before any commit: the
\* extension is unsupported, or the extractor ran and gave no text
UnsupportedCall(call) == FileType(Ext(call.filename)) = ""

EmptyExtractionCall(call) ==
  /\ FileType(Ext(call.filename)) # ""
  /\ ~RaisesImportError(FileType(Ext(call.filename)), pdfAvailable, textAvailable)
  /\ call.env.extract = "empty"

\* C12: a call of the ingestion that fails before any commit (unsupported
\* extension, or an extraction that yields no text) returns a failure,
\* leaves no temporary file, adds no chunk and leaves durable storage as
\* it was; for an unsupported extension no extractor was invoked
C12_NothingPersistsBeforeCommit ==
  [][(/\ ingestCalls' = ingestCalls + 1
      /\ UnsupportedCall(ingest') \/ EmptyExtractionCall(ingest'))
     => /\ ~ingest'.ok
        /\ ~Exists(tempFiles', ingest'.filename)
        /\ collection' = collection
        /\ persistent' = persistent
        /\ UnsupportedCall(ingest') => ingest'.log = <<>>]_vars

\* a text file of which the loader makes nothing, over a store with chunks
C12_Witness ==
  /\ ingest.done
  /\ ingest.filename = FNotes
  /\ textAvailable
  /\ ingest.env.extract = "empty"
  /\ ingest.message = MsgNoText("text")
  /\ ingest.log = <<"extract">>
  /\ ~Exists(tempFiles, FNotes)
  /\ collection # <<>>

\* nothing stands in the way of the ingestion of this request: the
\* extension is supported, the extractor is installed and yields text,
\* the add and the move succeed
Favourable(req) ==
  /\ FileType(Ext(req.filename)) # ""
  /\ ~RaisesImportError(FileType(Ext(req.filename)), pdfAvailable, textAvailable)
  /\ req.env.extract = "text"
  /\ req.env.addOk
  /\ req.env.moveOk

\* C13: an upload for which extraction, commit and move all succeed is
\* answered with a success, and when the handler returns the file is in
\* durable storage under its sanitized name and not at its temporary path
C13_FavourableUploadSucceeds ==
  [][\A w \in Workers :
       (up[w].pc = "process" /\ up'[w].done /\ Favourable(up'[w]))
       => /\ up'[w].resp.status = 200
          /\ up'[w].resp.key = "message"
          /\ Exists(persistent', up'[w].filename)
          /\ ~Exists(tempFiles', up'[w].filename)]_vars

\* the number of chunks in coll whose source names the file
NumChunksOf(coll, f) ==
  Cardinality({i \in 1..Len(coll) : coll[i].source.name = f})

\* the file with this name and content has been ingested: it is in
\* durable storage and the collection holds its chunks
AlreadyIngested(f, c) ==
  /\ Exists(persistent, f)
  /\ persistent[f] = c
  /\ HasChunksOf(f)

\* C14: dedup idempotence: ingesting a file that has already been
\* ingested, with the same name and content, leaves the number of chunks
\* in the index as it was after the first ingestion
C14_DedupIdempotence ==
  [][(/\ ingestCalls' = ingestCalls + 1
      /\ AlreadyIngested(ingest'.filename, ingest'.content))
     => /\ Len(collection') = Len(collection)
        /\ NumChunksOf(collection', ingest'.filename)
             = NumChunksOf(collection, ingest'.filename)]_vars

\* C15: a commit adds only novel chunks: no chunk an ingestion adds has
\* the text of a chunk that was in the collection before the call
C15_OnlyNovelChunks ==
  [][ingestCalls' = ingestCalls + 1
     => \A i \in (Len(collection) + 1)..Len(collection') :
          \A j \in 1..Len(collection) :
            collection'[i].text # collection[j].text]_vars

\* the chunks the last call of process_uploaded_file added
LastIngested ==
  SubSeq(collection, Len(collection) - ingest.added + 1, Len(collection))

\* the entries the last run of load_data.main added
LastLoaded ==
  SubSeq(documents_collection,
         Len(documents_collection) - load.added + 1, Len(documents_collection))

\* C16: every chunk an ingestion path commits carries a source metadata
\* field that is not empty and is the declared name of the ingested file
C16_SourceIsFilename ==
  /\ ingest.done =>
       \A i \in 1..Len(LastIngested) :
         LastIngested[i].source = Path("", ingest.filename)
  /\ load.done =>
       \A i \in 1..Len(LastLoaded) :
         /\ "source" \in DOMAIN LastLoaded[i].metadata
         /\ LastLoaded[i].metadata.source # ""
         /\ LastLoaded[i].metadata.source = LastLoaded[i].metadata.filename

\* C17: with the PDF extractor missing, the upload of a PDF is answered
\* with a missing-capability error of its own: status 501, neither the 500
\* of an internal failure nor the 400 of bad input, a reason that names
\* the missing dependencies, no chunk committed, no temporary file left
C17_MissingPdfCapability ==
  [][\A w \in Workers :
       (/\ up[w].pc = "process"
        /\ up'[w].done
        /\ FileType(Ext(up'[w].filename)) = "pdf"
        /\ ~pdfAvailable)
       => /\ up'[w].resp.status = 501
          /\ up'[w].resp.key = "error"
          /\ Contains(<<"Missing", "dependencies", "for", "PDF">>,
                      up'[w].resp.body)
          /\ collection' = collection
          /\ ~Exists(tempFiles', up'[w].filename)]_vars

\* the last ingestion met a failure of the system: an exception while
\* processing, a commit that raised, or a move that raised
SystemFailure(call) ==
  \/ /\ FileType(Ext(call.filename)) # ""
     /\ ~RaisesImportError(FileType(Ext(call.filename)), pdfAvailable, textAvailable)
     /\ call.env.extract = "raise"
  \/ ~call.env.addOk
  \/ ~call.env.moveOk

\* C18: an ingestion that fails because of its input (unsupported type,
\* nothing extractable) is reported as a failure that the upload handler
\* signals as bad input (400), and one that meets a failure of the system
\* is reported as a failure that it signals as an internal error (500)
C18_FailureKindDistinguished ==
  ingest.done =>
    /\ (UnsupportedCall(ingest) \/ EmptyExtractionCall(ingest)) =>
          (~ingest.ok /\ FailureStatus(ingest.message) = 400)
    /\ SystemFailure(ingest) =>
          (~ingest.ok /\ FailureStatus(ingest.message) = 500)

(* ------------------------------------------------------------------ *)
(* Properties of the generation step and of the request validation     *)
(* ------------------------------------------------------------------ *)
\* C19: a generator that raises does not fail the request: whenever
\* handle_query reaches the generation it answers 200 with an answer, and
\* when the generator raised that answer is the error string, which
\* carries the reason of the failure and no provenance suffix
C19_GeneratorFailureSurfaced ==
  (Answered /\ Generated) =>
     /\ q.resp.status = 200
     /\ q.resp.key = "answer"
     /\ q.gen.kind = "raise" =>
          /\ q.resp.body = <<"Error generating response: ">> \o q.gen.parts
          /\ Contains(q.gen.parts, q.resp.body)
          /\ q.resp.suffix = ""

\* the generator raises after both retrieval tiers found nothing
C19_Witness ==
  /\ Answered
  /\ q.gen = GenRaise("quota exceeded")
  /\ Ops = <<"retrieve", "search", "generate">>
  /\ LastCall.source_type = "none"
  /\ q.resp.status = 200
  /\ q.resp.body[2] = "quota exceeded"

\* C20: a request without a query, or with a query that is empty after
\* trimming, is rejected with a validation error (400) and no collaborator
\* is called for it
C20_EmptyQueryRejected ==
  (q.state = "done" /\ (~q.req.hasQuery \/ Strip(q.req.query) = <<>>)) =>
     /\ q.resp.status = 400
     /\ q.resp.key = "error"
     /\ q.calls = <<>>

(* ------------------------------------------------------------------ *)
(* Concurrent uploads of one name                                      *)
(* ------------------------------------------------------------------ *)
\* worker w is about to process an upload whose name another worker v
\* has saved and processed already: both passed the existence pre-check
\* before either reached the move
RacedBy(w, v) ==
  /\ v # w
  /\ up[w].pc = "process"
  /\ up[v].done
  /\ up[v].log # <<>>
  /\ up[v].filename = up[w].filename

\* C21: when two uploads of one name have both passed the pre-check and
\* nothing stands in the way of either ingestion, both are processed and
\* the later one overwrites the durable file the earlier one wrote
C21_RaceOverwrites ==
  [][\A w, v \in Workers :
       (RacedBy(w, v) /\ up'[w].done /\ Favourable(up[v]) /\ Favourable(up'[w]))
       => /\ up[v].resp.status = 200
          /\ Exists(persistent, up[w].filename)
          /\ up'[w].resp.status = 200
          /\ persistent'[up[w].filename] = up[w].content]_vars

(* ------------------------------------------------------------------ *)
(* Further properties of the query path                                *)
(* ------------------------------------------------------------------ *)
\* the request in q is classified as a document count query
CountIntent ==
  /\ IntentInferenceRuns(q.req.external_context, q.req.task_instruction)
  /\ IsCountQuery(QueryLowered)

\* C24: a query classified as a document count is answered from the
\* count alone: the only collaborator call is the count, neither the
\* retrieval nor the web search nor the generator is called, whether the
\* count succeeds (the answer renders it) or gives the failure sentinel
C24_CountShortCircuit ==
  (Answered /\ CountIntent) =>
     /\ Ops = <<"count">>
     /\ ~Called("retrieve")
     /\ ~Called("search")
     /\ ~Called("generate")
     /\ q.storeOk => q.resp = Response(200, "answer", CountAnswer(Len(collection)), "")
     /\ ~q.storeOk => (q.resp.status = 500 /\ q.resp.key = "error")

\* a count query on a store that holds chunks and whose count fails
C24_Witness ==
  /\ Answered
  /\ CountIntent
  /\ collection # <<>>
  /\ ~q.storeOk
  /\ Ops = <<"count">>
  /\ q.resp.key = "error"

(* ------------------------------------------------------------------ *)
(* Properties of the ids and the texts the ingestion paths commit      *)
(* ------------------------------------------------------------------ *)
\* the directory whose file names the load record holds
DirNamed(names) ==
  CHOOSE d \in Directories : [i \in 1..Len(d) |-> d[i].filename] = names

\* the ids the load that has just run assigned to its new entries; none
\* when it had nothing new or collection.count raised
IdsAssignedByLoad ==
  LET new == NewDocs(LoadLinesFromFiles(DirNamed(load'.dir)),
                     documents_collection, load'.env.getOk)
      ids == NewIds(Len(documents_collection), Len(new))
  IN  IF load'.env.countOk THEN {ids[k] : k \in 1..Len(ids)} ELSE {}

\* coll2 is coll with records appended: no stored record was replaced
Extends(coll2, coll) ==
  Len(coll2) >= Len(coll) /\ SubSeq(coll2, 1, Len(coll)) = coll

\* C25: the ids an ingestion assigns at commit time are fresh: each
\* differs from every id the store holds, also when the store is what a
\* run with a failed batch left behind, and the commit replaces no stored
\* chunk
C25_FreshIds ==
  [][/\ load'.calls = load.calls + 1 =>
          /\ IdsAssignedByLoad \cap IdsOf(documents_collection) = {}
          /\ Extends(documents_collection', documents_collection)
     /\ ingestCalls' = ingestCalls + 1 =>
          /\ \A i \in (Len(collection) + 1)..Len(collection') :
               collection'[i].id \notin IdsOf(collection)
          /\ Extends(collection', collection)]_vars

\* the prompt generate_response composed for the query in q
PromptOfQuery ==
  FormatRagPrompt(Strip(q.req.query), LastCall.documents,
                  LastCall.source_type, q.req.task_instruction)

\* the source a prompt's source description names
SourceNamedBy(source_description) ==
  CASE source_description =
         "using the following documents retrieved from internal storage"
         -> "internal storage"
    [] source_description =
         "using the following information found on the internet"
         -> "the internet"
    [] OTHER -> ""

\* the prompt speaks of the "provided context": in a source description,
\* or in the guidance the default instruction ends with
SpeaksOfProvidedContext(prompt) ==
  \/ SourceNamedBy(prompt.source_description) = "provided context"
  \/ prompt.instruction.kind = "default" /\ prompt.instruction.useContext

\* C26: the prompt describes the source the documents came from:
\* "internal storage" for documents, "the internet" for internet,
\* "provided context" for external, and no source clause for none
C26_SourceClause ==
  (Answered /\ Generated) =>
     /\ LastCall.source_type = "documents" =>
          SourceNamedBy(PromptOfQuery.source_description) = "internal storage"
     /\ LastCall.source_type = "internet" =>
          SourceNamedBy(PromptOfQuery.source_description) = "the internet"
     /\ LastCall.source_type = "external" => SpeaksOfProvidedContext(PromptOfQuery)
     /\ LastCall.source_type = "none" => PromptOfQuery.source_description = ""

\* the source type a provenance suffix stands for; an answer without
\* suffix stands for none of them, and a suffix that is none of the
\* three texts below would be the one of the caller's context
SourceOfSuffix(suffix) ==
  CASE suffix = "" -> ""
    [] suffix = "\n\n(Source: Internal Documents)" -> "documents"
    [] suffix = "\n\n(Source: Internet Search)" -> "internet"
    [] suffix = "\n\n(Source: General Knowledge - No specific documents found)"
         -> "none"
    [] OTHER -> "external"

\* C27: an answer a successful generation returned ends with the
\* provenance suffix of the source type the fallback chain selected, be
\* it external, documents, internet or none, and with no other suffix
C27_ProvenanceSuffix ==
  (Answered /\ Generated /\ q.gen.kind # "raise") =>
     /\ q.resp.suffix # ""
     /\ SourceOfSuffix(q.resp.suffix) = LastCall.source_type

(* ------------------------------------------------------------------ *)
(* Properties of the plan endpoint                                     *)
(* ------------------------------------------------------------------ *)
\* C28: the plan generate_plan returns has at least one digit character
\* or is exactly the fixed apology, and the one generation made for it
\* was called with no documents and the source type none
C28_PlanDigitOrApology ==
  (plan.state = "done" /\ plan.req.hasQuery) =>
     /\ plan.resp.status = 200
     /\ plan.resp.key = "plan"
     /\ \/ \E i \in 1..Len(plan.resp.body) : IsDigit(plan.resp.body[i])
        \/ plan.resp.body = CharsOf(PlanApology)
     /\ plan.calls = <<Call("generate", <<>>, "none")>>

\* the generator answered in prose, without a digit, and the client got
\* the apology instead
C28_Witness ==
  /\ plan.state = "done"
  /\ plan.req.hasQuery
  /\ plan.gen = GenText(PlanProse)
  /\ plan.resp.body = CharsOf(PlanApology)
  /\ plan.resp.status = 200

(* ------------------------------------------------------------------ *)
(* Properties of the search endpoint                                   *)
(* ------------------------------------------------------------------ *)
RECURSIVE TopicTexts(_)
\* the texts of the related topics in the provider's order: the nested
\* topics' texts where a topic has nested topics, else its own
TopicTexts(topics) ==
  IF topics = <<>> THEN <<>>
  ELSE (IF Head(topics).sub # <<>>
        THEN SelectSeq(Head(topics).sub, LAMBDA t : t # "")
        ELSE IF Head(topics).text # "" THEN <<Head(topics).text>> ELSE <<>>)
       \o TopicTexts(Tail(topics))

\* all the snippets an answer of the provider offers, the abstract first;
\* the definition stands in when there is nothing else
ProviderOrder(resp) ==
  LET texts == (IF resp.abstract # "" THEN <<resp.abstract>> ELSE <<>>)
               \o TopicTexts(resp.topics)
  IN  IF texts # <<>> THEN texts
      ELSE IF resp.definition # "" THEN <<resp.definition>> ELSE <<>>

\* C29: the search does not raise: a failure of the request, of the
\* status check, of the decoding or of anything else, and an answer
\* without results, give the empty list; for every num_results >= 0 the
\* list has at most num_results snippets, which are the first ones of
\* the provider's order, the abstract before the topics
C29_SearchNeverRaises ==
  (srch.state = "done" /\ srch.req.hasQuery) =>
     LET n == RequestedNumResults(srch.req)
         results == srch.resp.body
     IN  /\ srch.resp.status = 200
         /\ srch.resp.key = "results"
         /\ srch.searchResp.fail # "none" => results = <<>>
         /\ ProviderOrder(srch.searchResp) = <<>> => results = <<>>
         /\ Len(results) <= n
         /\ srch.searchResp.fail = "none" =>
              results = SubSeq(ProviderOrder(srch.searchResp), 1, Len(results))

\* a search limited to no result at all, on an answer with an abstract
C29_Witness ==
  /\ srch.state = "done"
  /\ srch.req.hasQuery
  /\ srch.req.num_results = 0
  /\ srch.searchResp.fail = "none"
  /\ srch.searchResp.abstract # ""
  /\ srch.resp.body = <<>>
  /\ srch.resp.status = 200

\* the texts stored in coll are pairwise distinct
DistinctTexts(coll) ==
  \A i, j \in 1..Len(coll) : coll[i].document = coll[j].document => i = j

\* C30: a load keeps the stored texts pairwise distinct: if they are
\* before load_into_chroma runs they are after it, also when the input
\* has one text twice and when the stored texts cannot be fetched
C30_LoadKeepsTextsDistinct ==
  [][(load'.calls = load.calls + 1 /\ DistinctTexts(documents_collection))
       => DistinctTexts(documents_collection')]_vars

====
